---- MODULE Spec2Model ----
(***************************************************************************)
(* A model of the two utilities of vst-agent:                              *)
(*   scripts/patch_juceaide_cmakelists.py  (the config patcher)            *)
(*   scripts/vibevst.py                    (the init / build / vibe CLI)   *)
(*                                                                         *)
(* Text is modelled as a sequence of pieces (each piece a string), so that *)
(* substring search, replacement, filtering, slicing and padding are       *)
(* computed position by position, as the Python string methods do.         *)
(***************************************************************************)
EXTENDS Integers, Sequences, FiniteSets, TLC

VARIABLES
    text,        \* patcher: content of FILE
    patch_log,   \* patcher: one record per finished run of main()
    fs,          \* CLI: the files below the working directory
    init_run,    \* CLI: arguments, derived identity and status of the last init
    history,     \* CLI: the runs of init and the user's changes so far, in order
    build_dir,   \* CLI: what build finds in its working directory
    build_run,   \* CLI: the current or last run of build
    environ,     \* CLI: the process environment of vibe
    aider_on_path,  \* CLI: whether the executable aider can be started
    vibe_run     \* CLI: the last run of vibe

patcher_vars == <<text, patch_log>>
init_vars == <<fs, init_run, history>>

build_vars == <<build_dir, build_run>>
vibe_vars == <<environ, aider_on_path, vibe_run>>

vars == <<text, patch_log, fs, init_run, history, build_dir, build_run,
         environ, aider_on_path, vibe_run>>

(***************************************************************************)
(* Bounds of the model.                                                    *)
(***************************************************************************)
MaxPieces == 3   \* an initial FILE is a concatenation of at most MaxPieces pieces
MaxRuns == 3     \* runs of the patcher on one FILE
MaxSteps == 3    \* runs of init and changes by the user in one working directory
MaxNameLen == 5  \* length of the names and company names tried exhaustively
MaxArtefacts == 1  \* .vst3 files a compile step leaves in the build tree
MaxBuilds == 2   \* runs of build in one working directory
MaxWords == 2    \* words of a vibe prompt

(***************************************************************************)
(* Generic text helpers (Python str semantics on sequences).               *)
(***************************************************************************)
\* needle occurs in hay at position i (1-based)
OccursAt(hay, needle, i) ==
    /\ i >= 1
    /\ i + Len(needle) - 1 <= Len(hay)
    /\ \A k \in 1..Len(needle) : hay[i + k - 1] = needle[k]

\* Python: needle in hay
Contains(hay, needle) ==
    \E i \in 1..(Len(hay) - Len(needle) + 1) : OccursAt(hay, needle, i)

\* Python: hay.find(needle) + 1 (0 when absent)
Find(hay, needle) ==
    IF Contains(hay, needle)
    THEN CHOOSE i \in 1..(Len(hay) - Len(needle) + 1) :
            /\ OccursAt(hay, needle, i)
            /\ \A j \in 1..(i - 1) : ~OccursAt(hay, needle, j)
    ELSE 0

\* a mutant of ReplaceFirst: the count is left out, hay.replace(old, new), so
\* every occurrence is replaced
RECURSIVE ReplaceFirst_all(_, _, _)
ReplaceFirst_all(hay, old, new) ==
    LET i == Find(hay, old)
    IN  IF i = 0 THEN hay
        ELSE SubSeq(hay, 1, i - 1) \o new
                \o ReplaceFirst_all(SubSeq(hay, i + Len(old), Len(hay)), old, new)

\* Python: hay.replace(old, new, 1)
ReplaceFirst(hay, old, new) ==
    LET i == Find(hay, old)
    IN  IF i = 0 THEN hay
        ELSE SubSeq(hay, 1, i - 1) \o new
                \o SubSeq(hay, i + Len(old), Len(hay))

(***************************************************************************)
(* The config patcher.                                                     *)
(***************************************************************************)
\* the anchor line searched for by main()
marker == <<"if(", "JUCE_BUILD_HELPER_TOOLS", ")">>

\* the two substrings whose presence means "already patched"
MarkDefined == <<"DEFINED ", "JUCE_TOOL_JUCEAIDE">>
MarkUsing == <<"Using provided ", "juceaide:">>

PATCH_BLOCK ==
    << "if(", "DEFINED ", "JUCE_TOOL_JUCEAIDE", ")",
       "\n    message(STATUS \"", "Using provided ", "juceaide:", " ${",
       "JUCE_TOOL_JUCEAIDE", "}\")\n\n    add_executable(juceaide IMPORTED GLOBAL)\n    set_target_properties(juceaide PROPERTIES IMPORTED_LOCATION \"${",
       "JUCE_TOOL_JUCEAIDE", "}\")\n    add_executable(juce::juceaide ALIAS juceaide)\n\n    get_filename_component(_juce_juceaide_name \"${",
       "JUCE_TOOL_JUCEAIDE", "}\" NAME)\n    set(JUCE_JUCEAIDE_NAME \"${_juce_juceaide_name}\" CACHE INTERNAL \"The name of the juceaide program\")\n",
       "else", "if(", "JUCE_BUILD_HELPER_TOOLS", ")" >>

\* a mutant of AlreadyPatched: only the second substring is looked for, and
\* with the wrong spelling
AlreadyPatched_miss(t) ==
    Contains(t, <<"Using provided ", "juceaide">>)

\* line 22: the idempotence check
AlreadyPatched(t) ==
    Contains(t, MarkDefined) \/ Contains(t, MarkUsing)

\* a mutant of HasMarker: the anchor check is skipped
HasMarker_skip(t) == TRUE

\* line 27: marker in text
HasMarker(t) == Contains(t, marker)

\* the pieces initial FILE contents are built from: the three searched
\* strings whole, each of their pieces alone, and ordinary text
Pieces ==
    {marker, MarkDefined, MarkUsing}
    \cup {<<p>> : p \in {"if(", "JUCE_BUILD_HELPER_TOOLS", ")", "DEFINED ",
                         "JUCE_TOOL_JUCEAIDE", "Using provided ", "juceaide:",
                         "else", "x\n"}}

RECURSIVE TextsOf(_)
TextsOf(n) ==
    IF n = 0 THEN {<< >>}
    ELSE LET T == TextsOf(n - 1)
         IN  T \cup {t \o p : t \in T, p \in Pieces}

\* what one run of main() does to FILE and reports
MainResult(t) ==
    IF AlreadyPatched(t)
    THEN [text |-> t, out |-> "Already patched:", rc |-> 0, wrote |-> FALSE]
    ELSE IF ~HasMarker(t)
    THEN [text |-> t, out |-> "Marker not found:", rc |-> 1, wrote |-> FALSE]
    ELSE [text |-> ReplaceFirst(t, marker, PATCH_BLOCK),
          out |-> "Patched:", rc |-> 0, wrote |-> TRUE]

\* one run of the patcher script
main ==
    /\ Len(patch_log) < MaxRuns
    /\ LET r == MainResult(text)
       IN  /\ text' = r.text
           /\ patch_log' = Append(patch_log,
                                  [out |-> r.out, rc |-> r.rc, wrote |-> r.wrote])

(***************************************************************************)
(* vibevst.py: characters and strings.  A string is a sequence of          *)
(* one-character strings.                                                  *)
(***************************************************************************)
Lowers == <<"a", "b", "c", "d", "e", "f", "g", "h", "i", "j", "k", "l", "m",
            "n", "o", "p", "q", "r", "s", "t", "u", "v", "w", "x", "y", "z">>
Uppers == <<"A", "B", "C", "D", "E", "F", "G", "H", "I", "J", "K", "L", "M",
            "N", "O", "P", "Q", "R", "S", "T", "U", "V", "W", "X", "Y", "Z">>
Digits == {"0", "1", "2", "3", "4", "5", "6", "7", "8", "9"}
Range(f) == {f[i] : i \in DOMAIN f}

\* str.isalnum() of one character: letters (U+00DF included) and digits
IsAlnum(c) == c \in Range(Lowers) \cup Range(Uppers) \cup Digits \cup {"ß"}

\* str.upper() of one character; Python applies the full Unicode case
\* mapping, under which U+00DF becomes the two characters "SS"
UpperChar(c) ==
    IF c = "ß" THEN <<"S", "S">>
    ELSE IF c \in Range(Lowers)
         THEN <<Uppers[CHOOSE i \in DOMAIN Lowers : Lowers[i] = c]>>
         ELSE <<c>>

\* str.upper()
RECURSIVE Upper(_)
Upper(s) == IF s = << >> THEN << >> ELSE UpperChar(Head(s)) \o Upper(Tail(s))

\* s[:n]
Prefix(s, n) == SubSeq(s, 1, IF Len(s) < n THEN Len(s) ELSE n)

\* s.ljust(w, fill)
Ljust(s, w, fill) ==
    IF Len(s) >= w THEN s ELSE s \o [i \in 1..(w - Len(s)) |-> fill]

\* f'"{s}"'
Quoted(s) == <<"\"">> \o s \o <<"\"">>

\* width of a manufacturer / plugin code
CodeLen == 4

\* a mutant of Sanitize: the filter keeps blanks as well
Sanitize_blank(name) ==
    SelectSeq(name, LAMBDA c : IsAlnum(c) \/ c = "_" \/ c = " ")

\* line 409: "".join(c for c in name if c.isalnum() or c == "_")
Sanitize(name) == SelectSeq(name, LAMBDA c : IsAlnum(c) \/ c = "_")

\* line 410: project_name.replace("_", "")
ClassName(project_name) == SelectSeq(project_name, LAMBDA c : c # "_")

\* lines 414-415: f'"{src[:4].upper().ljust(4, "X")}"'
CodeOf(src) == Quoted(Ljust(Upper(Prefix(src, CodeLen)), CodeLen, "X"))

\* lines 440-449
TemplateVars(name, synth, company) ==
    LET project_name == Sanitize(name)
    IN  [project_name |-> project_name,
         class_name |-> ClassName(project_name),
         display_name |-> name,
         company_name |-> company,
         is_synth |-> IF synth THEN "TRUE" ELSE "FALSE",
         needs_midi |-> IF synth THEN "TRUE" ELSE "FALSE",
         manufacturer_code |-> CodeOf(company),
         plugin_code |-> CodeOf(project_name)]

\* the replacement fields each template refers to
TemplateFields ==
    [CMAKE_TEMPLATE |-> {"project_name", "company_name", "is_synth",
                         "needs_midi", "manufacturer_code", "plugin_code",
                         "display_name"},
     PROCESSOR_TEMPLATE |-> {"class_name"},
     PROCESSOR_HEADER_TEMPLATE |-> {"class_name"},
     EDITOR_TEMPLATE |-> {"class_name", "display_name"},
     EDITOR_HEADER_TEMPLATE |-> {"class_name"}]

\* TEMPLATE.format(**template_vars): the text is determined by the template
\* and by the values of the fields it refers to
Render(template, tv) ==
    [by |-> template,
     fields |-> [f \in TemplateFields[template] |-> tv[f]]]

(***************************************************************************)
(* vibevst.py: the files below the working directory.  A path is the       *)
(* sequence of its components below Path.cwd(); fs maps every existing     *)
(* path to a directory or to a file with its content.                      *)
(***************************************************************************)
SourceDir == <<"S", "o", "u", "r", "c", "e">>
DSPDir == <<"D", "S", "P">>
GUIDir == <<"G", "U", "I">>
ResourcesDir == <<"R", "e", "s", "o", "u", "r", "c", "e", "s">>
CMakeListsTxt == <<"C", "M", "a", "k", "e", "L", "i", "s", "t", "s", ".", "t", "x", "t">>
PluginProcessorCpp == <<"P", "l", "u", "g", "i", "n", "P", "r", "o", "c", "e", "s", "s", "o", "r", ".", "c", "p", "p">>
PluginProcessorH == <<"P", "l", "u", "g", "i", "n", "P", "r", "o", "c", "e", "s", "s", "o", "r", ".", "h">>
PluginEditorCpp == <<"P", "l", "u", "g", "i", "n", "E", "d", "i", "t", "o", "r", ".", "c", "p", "p">>
PluginEditorH == <<"P", "l", "u", "g", "i", "n", "E", "d", "i", "t", "o", "r", ".", "h">>
GitKeep == <<".", "g", "i", "t", "k", "e", "e", "p">>

Dir == [kind |-> "dir"]
File(content) == [kind |-> "file", content |-> content]
Empty == [by |-> "nobody"]
UserText == [by |-> "user"]

IsDir(f, p) == p = << >> \/ (p \in DOMAIN f /\ f[p].kind = "dir")
IsFile(f, p) == p # << >> /\ p \in DOMAIN f /\ f[p].kind = "file"
Exists(f, p) == p = << >> \/ p \in DOMAIN f

Put(f, p, node) == [q \in DOMAIN f \cup {p} |-> IF q = p THEN node ELSE f[q]]

\* the outcome of one filesystem call: the files after it, and whether it
\* returned (ok) or raised OSError
Outcome(f, ok) == [fs |-> f, ok |-> ok]

\* Path.mkdir(parents=True, exist_ok=True): creates the missing ancestors and
\* the directory; raises when an ancestor or the path itself is a file
RECURSIVE MkdirFrom(_, _, _)
MkdirFrom(f, p, k) ==
    IF k > Len(p) THEN Outcome(f, TRUE)
    ELSE LET q == SubSeq(p, 1, k)
         IN  IF IsFile(f, q) THEN Outcome(f, FALSE)
             ELSE MkdirFrom(IF IsDir(f, q) THEN f ELSE Put(f, q, Dir), p, k + 1)

Mkdir(f, p) == MkdirFrom(f, p, 1)

Parent(p) == SubSeq(p, 1, Len(p) - 1)

\* a mutant of WriteText: an existing file is kept (exclusive creation)
WriteText_keep(f, p, content) ==
    IF ~IsDir(f, Parent(p)) \/ IsDir(f, p) THEN Outcome(f, FALSE)
    ELSE IF IsFile(f, p) THEN Outcome(f, TRUE)
    ELSE Outcome(Put(f, p, File(content)), TRUE)

\* Path.write_text(content): creates or truncates the file; raises when the
\* parent is no directory or the path is a directory
WriteText(f, p, content) ==
    IF ~IsDir(f, Parent(p)) \/ IsDir(f, p) THEN Outcome(f, FALSE)
    ELSE Outcome(Put(f, p, File(content)), TRUE)

\* Path.touch(): an existing file or directory keeps its content; a missing
\* file is created empty; raises when the parent is no directory
Touch(f, p) ==
    IF Exists(f, p) THEN Outcome(f, TRUE)
    ELSE IF ~IsDir(f, Parent(p)) THEN Outcome(f, FALSE)
    ELSE Outcome(Put(f, p, File(Empty)), TRUE)

\* line 417: Path.cwd() / project_name (joining "" leaves the path as it is)
ProjectPath(project_name) ==
    IF project_name = << >> THEN << >> ELSE <<project_name>>

\* lines 428-433
ProjectDirs(pp) ==
    << pp \o <<SourceDir>>, pp \o <<SourceDir, DSPDir>>,
       pp \o <<SourceDir, GUIDir>>, pp \o <<ResourcesDir>> >>

\* lines 451-470: the generated files and the template of each, in the order
\* they are written
GeneratedFiles(pp) ==
    << [path |-> pp \o <<CMakeListsTxt>>, template |-> "CMAKE_TEMPLATE"],
       [path |-> pp \o <<SourceDir, PluginProcessorCpp>>,
        template |-> "PROCESSOR_TEMPLATE"],
       [path |-> pp \o <<SourceDir, PluginProcessorH>>,
        template |-> "PROCESSOR_HEADER_TEMPLATE"],
       [path |-> pp \o <<SourceDir, PluginEditorCpp>>,
        template |-> "EDITOR_TEMPLATE"],
       [path |-> pp \o <<SourceDir, PluginEditorH>>,
        template |-> "EDITOR_HEADER_TEMPLATE"] >>

\* a mutant of RetentionMarkers: the second marker is forgotten
RetentionMarkers_dsp(pp) == << pp \o <<SourceDir, DSPDir, GitKeep>> >>

\* lines 473-474
RetentionMarkers(pp) ==
    << pp \o <<SourceDir, DSPDir, GitKeep>>, pp \o <<SourceDir, GUIDir, GitKeep>> >>

\* the filesystem calls of init, in program order
InitCalls(pp, tv) ==
    [i \in 1..Len(ProjectDirs(pp)) |-> [op |-> "mkdir", path |-> ProjectDirs(pp)[i]]]
    \o [i \in 1..Len(GeneratedFiles(pp)) |->
          [op |-> "write_text", path |-> GeneratedFiles(pp)[i].path,
           content |-> Render(GeneratedFiles(pp)[i].template, tv)]]
    \o [i \in 1..Len(RetentionMarkers(pp)) |->
          [op |-> "touch", path |-> RetentionMarkers(pp)[i]]]

Call(f, c) ==
    IF c.op = "mkdir" THEN Mkdir(f, c.path)
    ELSE IF c.op = "write_text" THEN WriteText(f, c.path, c.content)
    ELSE Touch(f, c.path)

\* the calls from the k-th on, stopping at the first that raises
RECURSIVE RunCalls(_, _, _)
RunCalls(f, calls, k) ==
    IF k > Len(calls) THEN Outcome(f, TRUE)
    ELSE LET r == Call(f, calls[k])
         IN  IF r.ok THEN RunCalls(r.fs, calls, k + 1) ELSE r

NoRun ==
    [ran |-> FALSE, name |-> << >>, synth |-> FALSE, company |-> << >>,
     project_name |-> << >>, class_name |-> << >>,
     manufacturer_code |-> << >>, plugin_code |-> << >>, rc |-> 0]

\* vibevst init NAME [--synth] [--company COMPANY]; an OSError is not caught
\* and ends the process with status 1
init(name, synth, company) ==
    /\ Len(history) < MaxSteps
    /\ LET tv == TemplateVars(name, synth, company)
           r == RunCalls(fs, InitCalls(ProjectPath(tv.project_name), tv), 1)
       IN  /\ fs' = r.fs
           /\ init_run' =
                [ran |-> TRUE, name |-> name, synth |-> synth, company |-> company,
                 project_name |-> tv.project_name, class_name |-> tv.class_name,
                 manufacturer_code |-> tv.manufacturer_code,
                 plugin_code |-> tv.plugin_code,
                 rc |-> IF r.ok THEN 0 ELSE 1]
    /\ history' = Append(history, "init")

(***************************************************************************)
(* vibevst.py: build.  The command blocks in two external processes, so a  *)
(* run is followed call by call.  build_dir records what the working       *)
(* directory holds: whether CMakeLists.txt exists, whether build/ exists   *)
(* and how many *.vst3 files are below build/.                             *)
(***************************************************************************)
WorkDirs ==
    {d \in [cmakelists : BOOLEAN, build : BOOLEAN, vst3 : 0..MaxArtefacts] :
        ~d.build => d.vst3 = 0}

NoBuild ==
    [pc |-> "idle", config |-> "Release", clean |-> FALSE, rc |-> 0,
     events |-> << >>, start |-> [cmakelists |-> FALSE, build |-> FALSE, vst3 |-> 0],
     n |-> 0]

Event(step, result) == [step |-> step, result |-> result]

\* sys.exit(code), or an exception nobody catches (status 1)
Exit(run, code) == [run EXCEPT !.pc = "exited", !.rc = code]

\* a mutant of DescriptorExists: the check is passed without looking
DescriptorExists_any(d) == TRUE

\* line 495: cmakelists.exists()
DescriptorExists(d) == d.cmakelists

\* a mutant of StepFailed: the return code is not looked at
StepFailed_never(returncode) == FALSE

\* lines 522 and 530: result.returncode != 0
StepFailed(returncode) == returncode # 0

\* the command is started: vibevst build [--config CONFIG] [--clean]
BuildStart ==
    /\ build_run.pc \in {"idle", "exited"}
    /\ build_run.n < MaxBuilds
    /\ \E config \in {"Debug", "Release"}, clean \in BOOLEAN :
          build_run' = [pc |-> "check", config |-> config, clean |-> clean,
                        rc |-> 0, events |-> << >>, start |-> build_dir,
                        n |-> build_run.n + 1]
    /\ UNCHANGED build_dir

\* lines 494-498
BuildCheck ==
    /\ build_run.pc = "check"
    /\ build_run' = IF DescriptorExists(build_dir)
                    THEN [build_run EXCEPT !.pc = "clean"]
                    ELSE Exit(build_run, 1)
    /\ UNCHANGED build_dir

\* lines 500-504: shutil.rmtree(build_dir) removes the tree, or raises after
\* removing some of it
BuildClean ==
    /\ build_run.pc = "clean"
    /\ IF build_run.clean /\ build_dir.build
       THEN \/ /\ build_dir' = [build_dir EXCEPT !.build = FALSE, !.vst3 = 0]
               /\ build_run' = [build_run EXCEPT
                                  !.pc = "configure",
                                  !.events = Append(@, Event("rmtree", 0))]
            \/ /\ \E left \in 0..build_dir.vst3 :
                     build_dir' = [build_dir EXCEPT !.vst3 = left]
               /\ build_run' = Exit([build_run EXCEPT
                                       !.events = Append(@, Event("rmtree", 1))], 1)
       ELSE /\ build_run' = [build_run EXCEPT !.pc = "configure"]
            /\ UNCHANGED build_dir

\* what an external cmake process may return; 127 stands for any status
\* other than 0 and 1
ReturnCodes == {0, 1, 127}

\* lines 513-524: cmake -B build -G Ninja ...; the process creates build/
BuildConfigure ==
    /\ build_run.pc = "configure"
    /\ \E returncode \in ReturnCodes :
          /\ build_run' =
                LET ran == [build_run EXCEPT
                              !.events = Append(@, Event("configure", returncode))]
                IN  IF StepFailed(returncode) THEN Exit(ran, 1)
                    ELSE [ran EXCEPT !.pc = "compile"]
          /\ \E made \in (IF returncode = 0 THEN {TRUE} ELSE BOOLEAN) :
                build_dir' = [build_dir EXCEPT !.build = @ \/ made]

\* lines 526-532: cmake --build build --config CONFIG -j; the process may
\* leave *.vst3 files below build/
BuildCompile ==
    /\ build_run.pc = "compile"
    /\ \E returncode \in ReturnCodes :
          /\ build_run' =
                LET ran == [build_run EXCEPT
                              !.events = Append(@, Event("compile", returncode))]
                IN  IF StepFailed(returncode) THEN Exit(ran, 1)
                    ELSE [ran EXCEPT !.pc = "report"]
          /\ \E n \in (IF build_dir.build THEN 0..MaxArtefacts ELSE {0}) :
                build_dir' = [build_dir EXCEPT !.vst3 = n]

\* lines 534-541: the success message, then build_dir.rglob("*.vst3")
BuildReport ==
    /\ build_run.pc = "report"
    /\ build_run' = Exit([build_run EXCEPT
                            !.events = @ \o << Event("success", 0),
                                               Event("rglob", build_dir.vst3) >>], 0)
    /\ UNCHANGED build_dir

\* an external process that cannot be started raises FileNotFoundError,
\* which build does not catch
BuildNoCmake ==
    /\ build_run.pc \in {"configure", "compile"}
    /\ build_run' = Exit([build_run EXCEPT
                            !.events = Append(@, Event("cmake not found", 1))], 1)
    /\ UNCHANGED build_dir

(***************************************************************************)
(* vibevst.py: vibe.  environ maps the names of the environment variables  *)
(* that are set to their values; aider_on_path says whether the executable *)
(* "aider" can be started.                                                 *)
(***************************************************************************)
\* os.environ.get(name, default)
EnvironGet(env, name, default) ==
    IF name \in DOMAIN env THEN env[name] ELSE default

\* line 31
JUCE_PATH(env) == EnvironGet(env, "JUCE_PATH", "/opt/JUCE")

\* line 552: " ".join(prompt)
RECURSIVE Join(_)
Join(words) ==
    IF Len(words) = 0 THEN << >>
    ELSE IF Len(words) = 1 THEN <<words[1]>>
    ELSE <<words[1], " ">> \o Join(Tail(words))

\* a mutant of Context: the request is left out
Context_norequest(env, prompt_text) ==
    << "You are helping develop a JUCE VST3 plugin. \nThe JUCE framework is located at ",
       JUCE_PATH(env),
       ".\nUse JUCE 7 syntax and modern C++20 features.\n\nProject structure:\n- Source/PluginProcessor.cpp - Audio processing callback\n- Source/PluginEditor.cpp - GUI code\n- Source/DSP/ - Put DSP classes here (filters, oscillators, etc.)\n- Source/GUI/ - Put custom GUI components here\n\nUser's request: ",
       "\n" >>

\* lines 570-581
Context(env, prompt_text) ==
    << "You are helping develop a JUCE VST3 plugin. \nThe JUCE framework is located at ",
       JUCE_PATH(env),
       ".\nUse JUCE 7 syntax and modern C++20 features.\n\nProject structure:\n- Source/PluginProcessor.cpp - Audio processing callback\n- Source/PluginEditor.cpp - GUI code\n- Source/DSP/ - Put DSP classes here (filters, oscillators, etc.)\n- Source/GUI/ - Put custom GUI components here\n\nUser's request: " >>
    \o prompt_text \o << "\n" >>

\* a mutant of NoKey: only an unset variable counts as missing
NoKey_unset(env) == "ANTHROPIC_API_KEY" \notin DOMAIN env

\* lines 562-564: not os.environ.get("ANTHROPIC_API_KEY", "")
NoKey(env) == EnvironGet(env, "ANTHROPIC_API_KEY", "") = ""

NoVibe ==
    [ran |-> FALSE, prompt |-> << >>, model |-> "", rc |-> 0,
     aider |-> << >>, printed |-> << >>]

\* vibevst vibe PROMPT... [--model MODEL]: one whole run.  The return code of
\* aider is not looked at.
vibe(prompt, model) ==
    LET prompt_text == Join(prompt)
        context == Context(environ, prompt_text)
        panel == [what |-> "panel", text |-> <<model>>]
        run == [ran |-> TRUE, prompt |-> prompt, model |-> model, rc |-> 0,
                aider |-> << >>, printed |-> <<panel>>]
    IN  /\ IF NoKey(environ)
           THEN vibe_run' = [run EXCEPT
                               !.rc = 1,
                               !.printed = Append(@, [what |-> "error",
                                                      text |-> <<"No API key found!">>])]
           ELSE IF aider_on_path
           THEN \E returncode \in {0, 1} :
                   vibe_run' = [run EXCEPT
                                  !.aider = << [model |-> model, message |-> context,
                                                returncode |-> returncode] >>]
           ELSE vibe_run' = [run EXCEPT
                               !.printed = Append(@, [what |-> "context",
                                                      text |-> context])]
        /\ UNCHANGED <<environ, aider_on_path>>

(***************************************************************************)
(* The user, between runs of the CLI.                                      *)
(***************************************************************************)
Notes == <<"n", "o", "t", "e", "s", ".", "m", "d">>
MySynthName == <<"M", "y", "S", "y", "n", "t", "h">>
UserFileNames == {Notes, MySynthName}

\* the user adds a file of their own to an existing directory
UserAdd ==
    /\ Len(history) < MaxSteps
    /\ \E d \in {<< >>} \cup {q \in DOMAIN fs : fs[q].kind = "dir"},
          c \in UserFileNames :
          /\ ~Exists(fs, d \o <<c>>)
          /\ fs' = Put(fs, d \o <<c>>, File(UserText))
    /\ history' = Append(history, "add")
    /\ UNCHANGED init_run

\* the user edits an existing file
UserEdit ==
    /\ Len(history) < MaxSteps
    /\ \E p \in DOMAIN fs :
          /\ fs[p].kind = "file"
          /\ fs[p].content # UserText
          /\ fs' = Put(fs, p, File(UserText))
    /\ history' = Append(history, "edit")
    /\ UNCHANGED init_run

(***************************************************************************)
(* Inputs.                                                                 *)
(***************************************************************************)
\* all strings over alphabet of length at most n
RECURSIVE Strings(_, _)
Strings(alphabet, n) ==
    IF n = 0 THEN {<< >>}
    ELSE LET S == Strings(alphabet, n - 1)
         IN  S \cup {Append(s, c) : s \in S, c \in alphabet}

\* one lowercase and one uppercase letter, the letter whose uppercase form is
\* longer, a digit, the underscore and a character the sanitizer drops
NameAlphabet == {"o", "J", "ß", "1", "_", " "}

MySynthBang == <<"M", "y", " ", "S", "y", "n", "t", "h", "!">>
Acme == <<"A", "c", "m", "e">>
VibeVST == <<"V", "i", "b", "e", "V", "S", "T">>

\* the names and companies init is run with when the files are followed
InitNames == {MySynthBang, MySynthName, << >>, SourceDir}
InitCompanies == {Acme}

(***************************************************************************)
(* Specifications.                                                         *)
(***************************************************************************)
PatcherIdle == text = << >> /\ patch_log = << >>
InitIdle ==
    /\ fs = << >>
    /\ init_run = NoRun
    /\ history = << >>
BuildIdle ==
    /\ build_dir = [cmakelists |-> FALSE, build |-> FALSE, vst3 |-> 0]
    /\ build_run = NoBuild
VibeIdle ==
    /\ environ = << >>
    /\ aider_on_path = FALSE
    /\ vibe_run = NoVibe

\* the patcher, run repeatedly on one FILE
InitPatcher ==
    /\ text \in TextsOf(MaxPieces)
    /\ patch_log = << >>
    /\ InitIdle /\ BuildIdle /\ VibeIdle

NextPatcher == main /\ UNCHANGED <<init_vars, build_vars, vibe_vars>>

SpecPatcher == InitPatcher /\ [][NextPatcher]_vars

\* the working directory before the first run: empty, or holding a directory
\* MySynth of the user's with a file of theirs in it
StartDirs ==
    { << >>,
      (<<MySynthName>> :> Dir) @@ (<<MySynthName, Notes>> :> File(UserText)) }

\* init and the user, in one working directory
InitFiles ==
    /\ PatcherIdle
    /\ fs \in StartDirs
    /\ init_run = NoRun
    /\ history = << >>
    /\ BuildIdle /\ VibeIdle

RunInit ==
    /\ \E name \in InitNames, synth \in BOOLEAN, company \in InitCompanies :
          init(name, synth, company)
    /\ UNCHANGED <<patcher_vars, build_vars, vibe_vars>>

NextFiles ==
    \/ RunInit
    \/ UserAdd /\ UNCHANGED <<patcher_vars, build_vars, vibe_vars>>
    \/ UserEdit /\ UNCHANGED <<patcher_vars, build_vars, vibe_vars>>

SpecFiles == InitFiles /\ [][NextFiles]_vars

\* one run of init in an empty working directory, for every name with the
\* default company and for every company with one name
InitNamesOnly == PatcherIdle /\ InitIdle /\ BuildIdle /\ VibeIdle

RunInitName ==
    /\ history = << >>
    /\ \E name \in Strings(NameAlphabet, MaxNameLen) :
          init(name, FALSE, VibeVST)
    /\ UNCHANGED <<patcher_vars, build_vars, vibe_vars>>

RunInitCompany ==
    /\ history = << >>
    /\ \E company \in Strings(NameAlphabet, MaxNameLen) :
          init(MySynthBang, TRUE, company)
    /\ UNCHANGED <<patcher_vars, build_vars, vibe_vars>>

NextNames == RunInitName \/ RunInitCompany

SpecNames == InitNamesOnly /\ [][NextNames]_vars

\* build, run repeatedly in one working directory
InitBuild ==
    /\ PatcherIdle /\ InitIdle /\ VibeIdle
    /\ build_dir \in WorkDirs
    /\ build_run = NoBuild

BuildFrame == UNCHANGED <<patcher_vars, init_vars, vibe_vars>>

NextBuild ==
    \/ BuildStart /\ BuildFrame
    \/ BuildCheck /\ BuildFrame
    \/ BuildClean /\ BuildFrame
    \/ BuildConfigure /\ BuildFrame
    \/ BuildCompile /\ BuildFrame
    \/ BuildReport /\ BuildFrame
    \/ BuildNoCmake /\ BuildFrame

SpecBuild == InitBuild /\ [][NextBuild]_vars

\* vibe, run in every environment
Environments ==
    { << >>,
      [v \in {"ANTHROPIC_API_KEY"} |-> ""],
      [v \in {"ANTHROPIC_API_KEY"} |-> "sk-ant-1"],
      [v \in {"JUCE_PATH"} |-> "/usr/local/JUCE"],
      [v \in {"ANTHROPIC_API_KEY", "JUCE_PATH"} |->
          IF v = "JUCE_PATH" THEN "/usr/local/JUCE" ELSE "sk-ant-1"] }

PromptWords == {"Add", "a", "filter"}
Prompts == Strings(PromptWords, MaxWords) \ {<< >>}
Models == {"claude-sonnet-4-20250514", "gpt-4o"}

InitVibe ==
    /\ PatcherIdle /\ InitIdle /\ BuildIdle
    /\ environ \in Environments
    /\ aider_on_path \in BOOLEAN
    /\ vibe_run = NoVibe

NextVibe ==
    /\ \E prompt \in Prompts, model \in Models : vibe(prompt, model)
    /\ UNCHANGED <<patcher_vars, init_vars, build_vars>>

SpecVibe == InitVibe /\ [][NextVibe]_vars

(***************************************************************************)
(* Properties of the config patcher.                                       *)
(***************************************************************************)
LastRun(log) == log[Len(log)]

\* C1: once a run of main() has patched FILE, every later run leaves the
\* content as it is, writes nothing, reports already-patched and returns 0.
C1_PatchTwiceIdempotent ==
    [][(\E i \in 1..Len(patch_log) : patch_log[i].out = "Patched:")
        => /\ text' = text
           /\ LastRun(patch_log') =
                [out |-> "Already patched:", rc |-> 0, wrote |-> FALSE]]_vars

\* a first run patched and a second run found the patch
C1_Witness ==
    /\ Len(patch_log) >= 2
    /\ patch_log[1] = [out |-> "Patched:", rc |-> 0, wrote |-> TRUE]
    /\ patch_log[2].out = "Already patched:"
    /\ Contains(text, PATCH_BLOCK)

\* C2 (as stated): a run on a FILE without the anchor line fails with a
\* non-zero exit and leaves the content unmodified.
C2_NoAnchorAlwaysFatal ==
    [][~Contains(text, marker)
        => /\ text' = text
           /\ LastRun(patch_log').rc # 0]_vars

\* C2 (amended): a run on a FILE without the anchor line leaves the content
\* unmodified and writes nothing; it fails with exit status 1 when FILE holds
\* neither already-patched substring, and otherwise reports already-patched
\* and returns 0.
C2_NoAnchorFatalUnlessPatched ==
    [][~Contains(text, marker)
        => /\ text' = text
           /\ ~LastRun(patch_log').wrote
           /\ IF Contains(text, MarkDefined) \/ Contains(text, MarkUsing)
              THEN /\ LastRun(patch_log').rc = 0
                   /\ LastRun(patch_log').out = "Already patched:"
              ELSE /\ LastRun(patch_log').rc = 1
                   /\ LastRun(patch_log').out = "Marker not found:"]_vars

\* a run failed on a FILE that has no anchor line and no patch
C2_Witness ==
    /\ patch_log # << >>
    /\ LastRun(patch_log) = [out |-> "Marker not found:", rc |-> 1, wrote |-> FALSE]
    /\ ~Contains(text, marker)
    /\ Len(text) > 0

(***************************************************************************)
(* Properties of init.                                                     *)
(***************************************************************************)
\* the text between the double quotes of a code
Unquoted(code) == SubSeq(code, 2, Len(code) - 1)

\* a is a subsequence of b, in order
RECURSIVE IsSubsequence(_, _)
IsSubsequence(a, b) ==
    IF a = << >> THEN TRUE
    ELSE IF b = << >> THEN FALSE
    ELSE IF Head(a) = Head(b) THEN IsSubsequence(Tail(a), Tail(b))
    ELSE IsSubsequence(a, Tail(b))

KeptBySanitizer(c) == IsAlnum(c) \/ c = "_"

\* what the claim says the code of a source string is
ClaimedCode(src) ==
    IF Len(src) >= 4 THEN Upper(SubSeq(src, 1, 4))
    ELSE Upper(src) \o [i \in 1..(4 - Len(Upper(src))) |-> "X"]

\* C5 (as stated): after every init, manufacturer_code and plugin_code are
\* each exactly 4 characters, uppercase, and equal the uppercased first 4
\* characters of the company / project name, right-padded with X to length 4.
C5_CodesAreFourChars ==
    init_run.ran =>
        \A pair \in {<<init_run.manufacturer_code, init_run.company>>,
                     <<init_run.plugin_code, init_run.project_name>>} :
            /\ Len(Unquoted(pair[1])) = 4
            /\ Upper(Unquoted(pair[1])) = Unquoted(pair[1])
            /\ Unquoted(pair[1]) = ClaimedCode(pair[2])

\* C6: after every init, the project name holds only alphanumeric characters
\* and underscores, is a subsequence of the given name and has as many
\* characters as the name has characters of that kind; the class name is the
\* project name without its underscores.
C6_SanitizedName ==
    init_run.ran =>
        LET s == init_run.name
            pn == init_run.project_name
            cn == init_run.class_name
        IN  /\ \A i \in 1..Len(pn) : KeptBySanitizer(pn[i])
            /\ IsSubsequence(pn, s)
            /\ Len(pn) = Cardinality({i \in 1..Len(s) : KeptBySanitizer(s[i])})
            /\ \A i \in 1..Len(cn) : cn[i] # "_"
            /\ IsSubsequence(cn, pn)
            /\ Len(cn) = Cardinality({i \in 1..Len(pn) : pn[i] # "_"})

\* init ran on a name with a character the sanitizer drops and an underscore
\* between two characters that stay
C6_Witness ==
    /\ init_run.ran
    /\ Len(init_run.project_name) < Len(init_run.name)
    /\ Len(init_run.class_name) < Len(init_run.project_name)
    /\ Len(init_run.class_name) >= 2

IsExampleRun ==
    /\ init_run.ran
    /\ init_run.name = MySynthBang
    /\ init_run.synth
    /\ init_run.company = Acme

\* the files below pp that are not the user's
FilesBelow(f, pp) ==
    {p \in DOMAIN f : /\ f[p].kind = "file"
                      /\ f[p].content # UserText
                      /\ Len(p) > Len(pp)
                      /\ SubSeq(p, 1, Len(pp)) = pp}

ExampleIdentity ==
    /\ init_run.project_name = MySynthName
    /\ init_run.class_name = MySynthName
    /\ Unquoted(init_run.manufacturer_code) = <<"A", "C", "M", "E">>
    /\ Unquoted(init_run.plugin_code) = <<"M", "Y", "S", "Y">>

\* C7 (as stated): init "My Synth!" --synth --company "Acme" derives MySynth,
\* MySynth, ACME and MYSY and, when it completes, has written six files and
\* two retention markers below the directory MySynth.
C7_SixFilesAndTwoMarkers ==
    (IsExampleRun /\ init_run.rc = 0 /\ history = <<"init">>)
        => /\ ExampleIdentity
           /\ Cardinality(FilesBelow(fs, <<MySynthName>>)) = 6 + 2

\* C7 (amended): init "My Synth!" --synth --company "Acme" derives MySynth,
\* MySynth, ACME and MYSY (each code kept between double quotes) and, as the
\* first run in its working directory, writes exactly five generated files
\* and two retention markers below the directory MySynth; every completed
\* init leaves the four directories, the five generated files and both
\* retention markers present below the directory named after the sanitized
\* project name.
C7_FiveFilesAndTwoMarkers ==
    /\ IsExampleRun
        => /\ ExampleIdentity
           /\ init_run.manufacturer_code[1] = "\""
           /\ init_run.plugin_code[1] = "\""
           /\ (init_run.rc = 0 /\ history = <<"init">>)
                => FilesBelow(fs, <<MySynthName>>) =
                     { <<MySynthName, CMakeListsTxt>>,
                       <<MySynthName, SourceDir, PluginProcessorCpp>>,
                       <<MySynthName, SourceDir, PluginProcessorH>>,
                       <<MySynthName, SourceDir, PluginEditorCpp>>,
                       <<MySynthName, SourceDir, PluginEditorH>>,
                       <<MySynthName, SourceDir, DSPDir, GitKeep>>,
                       <<MySynthName, SourceDir, GUIDir, GitKeep>> }
    /\ (init_run.ran /\ init_run.rc = 0)
        => LET pn == init_run.project_name
               pp == IF pn = << >> THEN << >> ELSE <<pn>>
           IN  /\ \A d \in { <<SourceDir>>, <<SourceDir, DSPDir>>,
                             <<SourceDir, GUIDir>>, <<ResourcesDir>> } :
                      IsDir(fs, pp \o d)
               /\ \A g \in { <<CMakeListsTxt>>, <<SourceDir, PluginProcessorCpp>>,
                             <<SourceDir, PluginProcessorH>>,
                             <<SourceDir, PluginEditorCpp>>,
                             <<SourceDir, PluginEditorH>>,
                             <<SourceDir, DSPDir, GitKeep>>,
                             <<SourceDir, GUIDir, GitKeep>> } :
                      IsFile(fs, pp \o g)

\* the example run completed as the first run in its working directory
C7_Witness ==
    /\ IsExampleRun
    /\ init_run.rc = 0
    /\ history = <<"init">>
    /\ IsFile(fs, <<MySynthName, SourceDir, GUIDir, GitKeep>>)

GeneratedPaths(pp) ==
    {GeneratedFiles(pp)[i].path : i \in DOMAIN GeneratedFiles(pp)}

\* C10: a run of init that completes leaves every generated file of its
\* project with the content rendered from this run's arguments, whatever the
\* file held before, and every run of init leaves every other file that was
\* present with the content it had.
C10_OverwriteGeneratedKeepOthers ==
    [][history' = Append(history, "init")
        => LET run == init_run'
               pp == IF run.project_name = << >> THEN << >>
                     ELSE <<run.project_name>>
               tv == TemplateVars(run.name, run.synth, run.company)
           IN  /\ run.rc = 0
                    => \A i \in DOMAIN GeneratedFiles(pp) :
                          LET g == GeneratedFiles(pp)[i]
                          IN  /\ g.path \in DOMAIN fs'
                              /\ fs'[g.path] = File(Render(g.template, tv))
               /\ \A p \in DOMAIN fs :
                     (p \notin GeneratedPaths(pp) \/ fs[p].kind = "dir")
                        => (p \in DOMAIN fs' /\ fs'[p] = fs[p])]_vars

\* init was run again on the project MySynth, which holds a file of the
\* user's, after the user had edited a generated file: the generated files are
\* as rendered by the second run and the user's file is as they left it
C10_Witness ==
    /\ history = <<"init", "edit", "init">>
    /\ init_run.rc = 0
    /\ init_run.project_name = MySynthName
    /\ <<MySynthName, Notes>> \in DOMAIN fs
    /\ fs[<<MySynthName, Notes>>] = File(UserText)
    /\ \A p \in GeneratedPaths(<<MySynthName>>) :
          p \in DOMAIN fs /\ fs[p].content # UserText

(***************************************************************************)
(* Properties of build.                                                    *)
(***************************************************************************)
Steps(run, names) ==
    {i \in 1..Len(run.events) : run.events[i].step \in names}

\* C3: a run of build started where no CMakeLists.txt exists ends with status
\* 1 without removing build/, without starting the configure or the compile
\* process and with the working directory as it was, whatever --config and
\* --clean are.
C3_NoDescriptorNoEffect ==
    (build_run.pc # "idle" /\ ~build_run.start.cmakelists)
        => /\ build_run.pc \in {"check", "exited"}
           /\ build_run.pc = "exited" => build_run.rc = 1
           /\ build_run.events = << >>
           /\ build_dir = build_run.start

\* build --clean ended with status 1 where there is no CMakeLists.txt and
\* build/ exists with a plugin in it
C3_Witness ==
    /\ build_run.pc = "exited"
    /\ build_run.rc = 1
    /\ build_run.clean
    /\ ~build_run.start.cmakelists
    /\ build_run.start.build
    /\ build_dir.build
    /\ build_dir.vst3 > 0

\* C4: in every run of build the configure process is started before the
\* compile process and each at most once; the compile process is started
\* only after configure returned 0; a step that returns non-zero is the last
\* thing the run does and the run ends with status 1; the success message
\* and the search for artefacts come only after both steps returned 0.
C4_ConfigureThenCompile ==
    LET ev == build_run.events
        okAt(name) == {i \in Steps(build_run, {name}) : ev[i].result = 0}
    IN  /\ Cardinality(Steps(build_run, {"configure"})) <= 1
        /\ Cardinality(Steps(build_run, {"compile"})) <= 1
        /\ \A j \in Steps(build_run, {"compile"}) :
              \E i \in okAt("configure") : i < j
        /\ \A i \in Steps(build_run, {"configure", "compile"}) :
              ev[i].result # 0
                 => /\ i = Len(ev)
                    /\ build_run.pc = "exited"
                    /\ build_run.rc = 1
        /\ \A k \in Steps(build_run, {"success", "rglob"}) :
              /\ \E i \in okAt("configure") : i < k
              /\ \E j \in okAt("compile") : j < k
        /\ (build_run.pc = "exited" /\ build_run.rc = 0)
              => Steps(build_run, {"success"}) # {}

\* configure returned 0 and compile failed: the run ended with status 1
\* right after the compile step
C4_Witness ==
    /\ build_run.pc = "exited"
    /\ build_run.rc = 1
    /\ Len(build_run.events) >= 2
    /\ build_run.events[Len(build_run.events) - 1] = Event("configure", 0)
    /\ build_run.events[Len(build_run.events)].step = "compile"
    /\ build_run.events[Len(build_run.events)].result # 0

(***************************************************************************)
(* Properties of vibe.                                                     *)
(***************************************************************************)
KeyAbsentOrEmpty ==
    \/ "ANTHROPIC_API_KEY" \notin DOMAIN environ
    \/ environ["ANTHROPIC_API_KEY"] = ""

Printed(what) ==
    {i \in 1..Len(vibe_run.printed) : vibe_run.printed[i].what = what}

\* C8: a run of vibe with ANTHROPIC_API_KEY unset or empty ends with status
\* 1 and never starts the assistant process, whatever the prompt and model.
C8_NoKeyExitsOne ==
    (vibe_run.ran /\ KeyAbsentOrEmpty)
        => /\ vibe_run.rc = 1
           /\ vibe_run.aider = << >>
           /\ Printed("context") = {}

\* vibe ran with the variable set to the empty string where aider can be
\* started, and ended with status 1
C8_Witness ==
    /\ vibe_run.ran
    /\ "ANTHROPIC_API_KEY" \in DOMAIN environ
    /\ environ["ANTHROPIC_API_KEY"] = ""
    /\ aider_on_path
    /\ vibe_run.rc = 1
    /\ Printed("error") # {}

\* C9: a run of vibe with the key present where aider cannot be started ends
\* with status 0, starts no process and prints the instruction string, which
\* holds the words of the prompt, blank-separated, in order.
C9_FallbackPrintsContext ==
    (vibe_run.ran /\ ~KeyAbsentOrEmpty /\ ~aider_on_path)
        => /\ vibe_run.rc = 0
           /\ vibe_run.aider = << >>
           /\ \E i \in Printed("context") :
                 LET shown == vibe_run.printed[i].text
                     w == vibe_run.prompt
                 IN  \E at \in 1..(Len(shown) - 2 * (Len(w) - 1)) :
                        /\ \A k \in 1..Len(w) : shown[at + 2 * (k - 1)] = w[k]
                        /\ \A k \in 1..(Len(w) - 1) : shown[at + 2 * k - 1] = " "

\* vibe ran with a key and a two-word prompt where aider cannot be started
C9_Witness ==
    /\ vibe_run.ran
    /\ ~KeyAbsentOrEmpty
    /\ ~aider_on_path
    /\ Len(vibe_run.prompt) = 2
    /\ vibe_run.rc = 0
    /\ Printed("context") # {}

(***************************************************************************)
(* Properties of error handling, over all commands.                        *)
(***************************************************************************)
\* the last run of the patcher met a missing anchor line on an unpatched FILE
\* (a run that does not write leaves FILE as it found it)
PatcherMissedAnchor ==
    /\ patch_log # << >>
    /\ ~LastRun(patch_log).wrote
    /\ ~Contains(text, marker)
    /\ ~Contains(text, MarkDefined)
    /\ ~Contains(text, MarkUsing)

\* a delegated process of the finished run of build returned non-zero
BuildStepReturnedNonZero ==
    \E i \in Steps(build_run, {"configure", "compile"}) :
        build_run.events[i].result # 0

\* the assistant process of the last run of vibe returned non-zero
AiderReturnedNonZero ==
    \E i \in 1..Len(vibe_run.aider) : vibe_run.aider[i].returncode # 0

PatcherErrorsReported ==
    /\ PatcherMissedAnchor => LastRun(patch_log).rc # 0
    /\ (patch_log # << >> /\ LastRun(patch_log).rc = 0 /\ ~LastRun(patch_log).wrote)
          => LastRun(patch_log).out = "Already patched:"

BuildErrorsReported ==
    build_run.pc = "exited"
        => /\ ~build_run.start.cmakelists => build_run.rc # 0
           /\ BuildStepReturnedNonZero => build_run.rc # 0
           /\ build_run.rc = 0 => Steps(build_run, {"success"}) # {}

VibeErrorsReported ==
    vibe_run.ran
        => /\ KeyAbsentOrEmpty => vibe_run.rc # 0
           /\ AiderReturnedNonZero => vibe_run.rc # 0
           /\ (vibe_run.rc = 0 /\ vibe_run.aider = << >>)
                 => (~aider_on_path /\ Printed("context") # {})

\* C11: in every run of a command a missing precondition (no CMakeLists.txt,
\* no credential, no anchor line) or a non-zero return of a delegated
\* process ends the run with a non-zero status; a run that ends with status
\* 0 without completing its work is the patcher's already-patched run or the
\* fallback of vibe taken when aider cannot be started.
C11_NoErrorSwallowed ==
    /\ PatcherErrorsReported
    /\ BuildErrorsReported
    /\ VibeErrorsReported

(***************************************************************************)
(* Properties of the replacement made by the patcher.                      *)
(***************************************************************************)
IfDefinedBranch == <<"if(", "DEFINED ", "JUCE_TOOL_JUCEAIDE", ")">>
ElseIfBranch == <<"else", "if(", "JUCE_BUILD_HELPER_TOOLS", ")">>

\* C12: a run on a FILE that holds the anchor and neither already-patched
\* substring writes FILE with the first occurrence of the anchor replaced by
\* the patch block and nothing else changed: the text before that occurrence
\* and the text after it, later occurrences of the anchor included, are as
\* they were; the block opens with the if(DEFINED JUCE_TOOL_JUCEAIDE) branch
\* and closes with the original condition as elseif(JUCE_BUILD_HELPER_TOOLS).
C12_OnlyFirstAnchorReplaced ==
    [][(/\ Contains(text, marker)
        /\ ~Contains(text, MarkDefined)
        /\ ~Contains(text, MarkUsing))
        => \E i \in 1..Len(text) :
              LET grown == Len(PATCH_BLOCK) - Len(marker)
                  after == i + Len(marker)
              IN  /\ OccursAt(text, marker, i)
                  /\ \A j \in 1..(i - 1) : ~OccursAt(text, marker, j)
                  /\ LastRun(patch_log') =
                        [out |-> "Patched:", rc |-> 0, wrote |-> TRUE]
                  /\ Len(text') = Len(text) + grown
                  /\ \A k \in 1..(i - 1) : text'[k] = text[k]
                  /\ \A k \in after..Len(text) : text'[k + grown] = text[k]
                  /\ \A j \in after..Len(text) :
                        OccursAt(text, marker, j) => OccursAt(text', marker, j + grown)
                  /\ OccursAt(text', PATCH_BLOCK, i)
                  /\ OccursAt(text', IfDefinedBranch, i)
                  /\ OccursAt(text', ElseIfBranch,
                              after + grown - Len(ElseIfBranch))
                  /\ i < after + grown - Len(ElseIfBranch)]_vars

\* a FILE with text before the anchor and a second anchor after it was
\* patched: the block follows the text and the second anchor follows the block
C12_Witness ==
    /\ Len(patch_log) = 1
    /\ patch_log[1] = [out |-> "Patched:", rc |-> 0, wrote |-> TRUE]
    /\ \E i \in 2..Len(text) :
          /\ OccursAt(text, PATCH_BLOCK, i)
          /\ OccursAt(text, marker, i + Len(PATCH_BLOCK))
          /\ ~Contains(SubSeq(text, 1, i - 1), marker)

====
